---- MODULE Spec2Model ----
(***************************************************************************)
(* Model of kaqt_app/app.js: the dashboard's refresh cycle (refreshAll),   *)
(* its triggers (startup, 3-second timer, refresh button, commands) and    *)
(* the command click handlers, as an event loop of run-to-completion       *)
(* steps.  A step is what JavaScript runs between two awaits: a click or   *)
(* timer callback up to its first await, or the continuation of an async   *)
(* function from the resolution of the awaited backend call up to the next *)
(* await.                                                                  *)
(* The renderers that are functions of their arguments (status texts,     *)
(* drawEquityCurve, renderTrades) are modelled as operators and exercised  *)
(* by RenderSpec, one call each on arguments drawn from bounded sets.      *)
(***************************************************************************)
EXTENDS Integers, Sequences, FiniteSets, TLC

\* Number of backend calls that can be in flight at once: each belongs to a
\* refreshAll() invocation or to a command handler suspended at its await.
MaxPending == 2

VARIABLES
    bridge,      \* window.pywebview && window.pywebview.api is truthy
    backend,     \* the backend's current status (what get_status would answer now)
    quiet,       \* the backend has settled: status no longer changes, calls succeed
    timerArmed,  \* the setInterval timer of line 315 is registered
    cyc,         \* the refreshAll() invocations suspended at an await, oldest first
    cmd,         \* the command handlers suspended at their backend call, oldest first
    tiles,       \* the status tiles as last rendered
    startBtn,    \* disabled flag of btn-start (1) and btn-start-2 (2)
    posTable,    \* positions-body: who wrote it last (see Tags)
    trdTable,    \* trades-body: likewise
    chart,       \* equity-canvas: likewise
    alerted,     \* text of the alert() raised by the last step, or NoAlert
    fault,       \* what became of an exception raised in the last step
    watch,       \* position in cyc of the invocation being followed, or Over
    arg,         \* a renderer called on its own: the call and its arguments
    out          \* ... and what it left on the page

vars == <<bridge, backend, quiet, timerArmed, cyc, cmd, tiles, startBtn,
          posTable, trdTable, chart, alerted, fault, watch, arg, out>>

surfaces == <<tiles, startBtn, posTable, trdTable, chart>>

call == <<arg, out>>

NoCall == [fn |-> "none"]

NoAlert == "-"

\* ---------------------------------------------------------------------
\* Values
\* ---------------------------------------------------------------------
\* get_status payloads: only the field the start-button lock depends on.
StatusPayloads == [engine_active : BOOLEAN]

\* What else can come back from get_status: null (the backend returned
\* nothing), or no payload at all because the promise rejects.
NullPayload == [null |-> TRUE]
Rejection == [rejected |-> TRUE]
StatusAnswers == StatusPayloads \cup {NullPayload, Rejection}

\* Answers of the mutation calls: {ok, message?}; "absent" is a missing field.
OkValues == {"true", "false", "absent"}
MsgValues == {"absent", "Broker offline"}
Replies == [ok : OkValues, message : MsgValues]

\* Exceptions the code can meet: a rejected backend promise, or a property
\* read on null/undefined.
RejectedErr == [name |-> "Error", message |-> "backend call failed"]
NullErr == [name |-> "TypeError", message |-> "Cannot read properties of null"]
NoBridgeErr == [name |-> "TypeError", message |-> "Cannot read properties of undefined"]

\* String(e) of an Error object: "<name>: <message>".
StringOf(e) == e.name \o ": " \o e.message

\* A surface remembers which invocation wrote it last: AsLoaded (the page's
\* markup, never written), Over (an invocation that has ended), or i >= 1,
\* the invocation now at cyc[i].
AsLoaded == -1
Over == 0
Tags == AsLoaded..MaxPending

\* The invocation at position i has ended and the younger ones move up.
Shift(tag, i) == IF tag = i THEN Over ELSE IF tag > i THEN tag - 1 ELSE tag

RemoveAt(s, i) == [j \in 1..(Len(s) - 1) |-> IF j < i THEN s[j] ELSE s[j + 1]]

\* backendReady(): line 6.
backendReady == bridge

\* Room for one more call in flight.
Room == Len(cyc) + Len(cmd) < MaxPending

\* ---------------------------------------------------------------------
\* Rendering
\* ---------------------------------------------------------------------
\* Lines 214, 225, 230: s.engine_active ? "ACTIVE" : "INACTIVE".
EngineText(s) == IF s.engine_active THEN "ACTIVE" ELSE "INACTIVE"

\* Lines 214-215, 225-226, 230: engine text and dot from s.engine_active.
RenderTiles(s, i) ==
    [engine |-> EngineText(s),
     dot |-> IF s.engine_active THEN "green" ELSE "red",
     from |-> i]

\* A lock that reaches btn-start only.
LockStartFirstOnly(s) == [b \in {1, 2} |-> IF b = 1 THEN s.engine_active ELSE startBtn[b]]

\* Lines 236-237: both start buttons get disabled = !!s.engine_active.
LockStart(s) == [b \in {1, 2} |-> s.engine_active]

InitTiles == [engine |-> "as loaded", dot |-> "as loaded", from |-> AsLoaded]

\* ---------------------------------------------------------------------
\* Callers, exceptions and notifications
\* ---------------------------------------------------------------------
CmdKinds == {"start_engine", "stop_engine", "save_broker_config",
             "test_broker_connection", "set_scheduler_time", "logout"}

\* What the caller of an async function has attached to its promise:
\*   "swallow"  .catch(() => {})                 line 315 (timer)
\*   "log"      .catch(console.error)            lines 263, 314
\*   "alert"    .catch(e => alert(String(e)))    lines 279-282
\*   "ignore"   try { } catch(e) {}              lines 53-57
\*   "none"     a bare async click handler       lines 285-311
Handlers == {"swallow", "log", "alert", "none"}

HandlerOf(kind) ==
    CASE kind \in {"start_engine", "stop_engine"} -> "alert"
      [] kind = "logout" -> "ignore"
      [] OTHER -> "none"

\* What becomes of an exception that reaches handler h.
Disposition(h) ==
    CASE h = "swallow" -> "swallowed"
      [] h = "log" -> "console.error"
      [] h = "alert" -> "caught"
      [] h = "ignore" -> "ignored"
      [] OTHER -> "unhandled"

ErrorNotice(h, e) == IF h = "alert" THEN StringOf(e) ELSE NoAlert

\* A timer re-armed only by a cycle that succeeds.
TimerAfterRearmOnSuccess(h) == IF h = "swallow" THEN FALSE ELSE timerArmed

\* setInterval (line 315) keeps firing whatever its callback's promise does.
TimerAfter(h) == timerArmed

Truthy(v) == v \notin {"absent", "false", ""}

\* r.message || (r.ok ? good : "Failed")    lines 268, 275, 300
MessageOrOk(r, good) ==
    IF Truthy(r.message) THEN r.message
    ELSE IF Truthy(r.ok) THEN good ELSE "Failed"

\* r.message || "Saved"                     lines 295, 309
MessageOrSaved(r) == IF Truthy(r.message) THEN r.message ELSE "Saved"

ReplyNotice(kind, r) ==
    CASE kind = "start_engine" -> MessageOrOk(r, "Engine started")
      [] kind = "stop_engine" -> MessageOrOk(r, "Engine stopped")
      [] kind = "test_broker_connection" -> MessageOrOk(r, "Connection OK")
      [] kind = "save_broker_config" -> MessageOrSaved(r)
      [] kind = "set_scheduler_time" -> MessageOrSaved(r)
      [] OTHER -> NoAlert

\* Which handlers go on to `await refreshAll()` after their alert:
\* lines 269, 276, 301, 310; the save-connection handler (285-296) and
\* logout (52-59) do not.
RefreshesAfter(kind) ==
    kind \in {"start_engine", "stop_engine", "test_broker_connection",
              "set_scheduler_time"}

\* Which handlers test backendReady() before touching window.pywebview.api:
\* lines 54, 266, 273.
ChecksReady(kind) == kind \in {"start_engine", "stop_engine", "logout"}

\* ---------------------------------------------------------------------
\* refreshAll()
\* ---------------------------------------------------------------------
NoOutput == alerted' = NoAlert /\ fault' = "none"

\* Line 204: the invocation issues get_status and suspends; h is what its
\* caller does with a rejection.
BeginCycleCancelling(h) ==
    cyc' = <<[pc |-> "status", h |-> h, resp |-> {}]>>

BeginCycle(h) ==
    cyc' = Append(cyc, [pc |-> "status", h |-> h, resp |-> {}])

\* refreshAll() without its readiness check.
RefreshAllUnguarded(h) == BeginCycle(h)

\* Lines 201-204: refreshAll() up to its first await.
RefreshAll(h) ==
    IF ~backendReady
      THEN UNCHANGED cyc
      ELSE BeginCycle(h)

CanRefresh == backendReady => Room

\* The invocation at position i is over (returned or threw).
EndCycle(i) ==
    /\ cyc' = RemoveAt(cyc, i)
    /\ tiles' = [tiles EXCEPT !.from = Shift(tiles.from, i)]
    /\ posTable' = Shift(posTable, i)
    /\ trdTable' = Shift(trdTable, i)
    /\ watch' = Shift(watch, i)

\* An exception leaves refreshAll(): the invocation ends and the caller's
\* handler, if it has one, runs.
ThrowClearing(i, e) ==
    /\ cyc' = RemoveAt(cyc, i)
    /\ tiles' = [tiles EXCEPT !.from = Shift(tiles.from, i)]
    /\ posTable' = AsLoaded
    /\ trdTable' = AsLoaded
    /\ watch' = Shift(watch, i)
    /\ fault' = Disposition(cyc[i].h)
    /\ alerted' = ErrorNotice(cyc[i].h, e)
    /\ timerArmed' = TimerAfter(cyc[i].h)
    /\ UNCHANGED <<call, bridge, backend, quiet, cmd, startBtn, chart>>

Throw(i, e) ==
    /\ EndCycle(i)
    /\ fault' = Disposition(cyc[i].h)
    /\ alerted' = ErrorNotice(cyc[i].h, e)
    /\ timerArmed' = TimerAfter(cyc[i].h)
    /\ UNCHANGED <<call, bridge, backend, quiet, cmd, startBtn, chart>>

\* The backend answers get_status with its status of that moment (or, as
\* long as it has not settled, with null or a failure); the answer travels
\* back while the page goes on running.
StatusServe(i) ==
    /\ i \in DOMAIN cyc
    /\ cyc[i].pc = "status"
    /\ cyc[i].resp = {}
    /\ \E a \in {backend} \cup (IF quiet THEN {} ELSE {NullPayload, Rejection}) :
          cyc' = [cyc EXCEPT ![i].resp = {a}]
    /\ NoOutput
    /\ UNCHANGED <<call, watch, bridge, backend, quiet, timerArmed, cmd, surfaces>>

\* get_positions issued before the status is rendered.
AfterStatusFetchFirst(i, s) ==
    /\ cyc' = [cyc EXCEPT ![i] = [pc |-> "positions", h |-> cyc[i].h, resp |-> {}]]
    /\ NoOutput
    /\ UNCHANGED <<call, watch, bridge, backend, quiet, timerArmed, cmd, surfaces>>

\* A sequencing token: an invocation that a younger one has overtaken
\* drops its status instead of rendering it.
AfterStatusUnlessOvertaken(i, s) ==
    /\ IF \E j \in DOMAIN cyc : j > i /\ cyc[j].pc # "status"
         THEN UNCHANGED <<tiles, startBtn>>
         ELSE tiles' = RenderTiles(s, i) /\ startBtn' = LockStart(s)
    /\ cyc' = [cyc EXCEPT ![i] = [pc |-> "positions", h |-> cyc[i].h, resp |-> {}]]
    /\ NoOutput
    /\ UNCHANGED <<call, watch, bridge, backend, quiet, timerArmed, cmd,
                   posTable, trdTable, chart>>

\* Lines 207-252 for a status object s: the tiles and the start-button lock
\* are written, then get_positions is issued.
AfterStatus(i, s) ==
    /\ tiles' = RenderTiles(s, i)
    /\ startBtn' = LockStart(s)
    /\ cyc' = [cyc EXCEPT ![i] = [pc |-> "positions", h |-> cyc[i].h, resp |-> {}]]
    /\ NoOutput
    /\ UNCHANGED <<call, watch, bridge, backend, quiet, timerArmed, cmd,
                   posTable, trdTable, chart>>

\* Line 204 resumes with answer a.  A rejected promise throws at the await;
\* a null payload throws at `s.cash` on line 207, before anything is
\* written; any object is rendered.
StatusAnswered(i, a) ==
    CASE a = Rejection -> Throw(i, RejectedErr)
      [] a = NullPayload -> Throw(i, NullErr)
      [] OTHER -> AfterStatus(i, a)

StatusResume(i) ==
    /\ i \in DOMAIN cyc
    /\ cyc[i].pc = "status"
    /\ \E a \in cyc[i].resp : StatusAnswered(i, a)

\* renderPositions(pos) run as soon as pos is there.
AfterPositionsRender(i) ==
    /\ posTable' = i
    /\ cyc' = [cyc EXCEPT ![i].pc = "trades"]
    /\ NoOutput
    /\ UNCHANGED <<call, watch, bridge, backend, quiet, timerArmed, cmd,
                   tiles, startBtn, trdTable, chart>>

\* Line 252 resumes: pos is kept, get_trades is issued (line 253).
AfterPositions(i) ==
    /\ cyc' = [cyc EXCEPT ![i].pc = "trades"]
    /\ NoOutput
    /\ UNCHANGED <<call, watch, bridge, backend, quiet, timerArmed, cmd, surfaces>>

PositionsResume(i) ==
    /\ i \in DOMAIN cyc
    /\ cyc[i].pc = "positions"
    /\ \/ AfterPositions(i)
       \/ ~quiet /\ Throw(i, RejectedErr)

\* Line 253 resumes: renderPositions(pos), renderTrades(trd), then
\* get_equity_curve is issued (lines 254-258).
AfterTrades(i) ==
    /\ posTable' = i
    /\ trdTable' = i
    /\ cyc' = [cyc EXCEPT ![i].pc = "curve"]
    /\ NoOutput
    /\ UNCHANGED <<call, watch, bridge, backend, quiet, timerArmed, cmd,
                   tiles, startBtn, chart>>

TradesResume(i) ==
    /\ i \in DOMAIN cyc
    /\ cyc[i].pc = "trades"
    /\ \/ AfterTrades(i)
       \/ ~quiet /\ Throw(i, RejectedErr)

\* Line 258 resumes: drawEquityCurve(curve), and refreshAll() returns.
AfterCurve(i) ==
    /\ chart' = Over
    /\ EndCycle(i)
    /\ NoOutput
    /\ UNCHANGED <<call, bridge, backend, quiet, timerArmed, cmd, startBtn>>

CurveResume(i) ==
    /\ i \in DOMAIN cyc
    /\ cyc[i].pc = "curve"
    /\ \/ AfterCurve(i)
       \/ ~quiet /\ Throw(i, RejectedErr)

\* ---------------------------------------------------------------------
\* Refresh triggers
\* ---------------------------------------------------------------------
\* Line 315: the interval callback.
Tick ==
    /\ timerArmed
    /\ CanRefresh
    /\ RefreshAll("swallow")
    /\ NoOutput
    /\ UNCHANGED <<call, watch, bridge, backend, quiet, timerArmed, cmd, surfaces>>

\* Line 263: the refresh button.
RefreshClick ==
    /\ CanRefresh
    /\ RefreshAll("log")
    /\ NoOutput
    /\ UNCHANGED <<call, watch, bridge, backend, quiet, timerArmed, cmd, surfaces>>

\* ---------------------------------------------------------------------
\* Commands
\* ---------------------------------------------------------------------
\* A click handler up to its first await.  Handlers that check
\* backendReady() stop there when it is false (start/stop with an alert);
\* the others read window.pywebview.api regardless.
Click(kind) ==
    /\ backendReady => Room
    /\ IF backendReady
         THEN /\ cmd' = Append(cmd, kind)
              /\ NoOutput
         ELSE /\ UNCHANGED cmd
              /\ IF ChecksReady(kind)
                   THEN /\ alerted' = IF kind = "logout" THEN NoAlert
                                      ELSE "Backend not ready."
                        /\ fault' = "none"
                   ELSE /\ alerted' = ErrorNotice(HandlerOf(kind), NoBridgeErr)
                        /\ fault' = Disposition(HandlerOf(kind))
    /\ UNCHANGED <<call, watch, bridge, backend, quiet, timerArmed, cyc, surfaces>>

\* Lines 279-280: a disabled button dispatches no click.
StartClick(b) == ~startBtn[b] /\ Click("start_engine")
\* Lines 281-282.
StopClick == Click("stop_engine")
\* Lines 285-296.
SaveConnClick == Click("save_broker_config")
\* Lines 298-302.
TestConnClick == Click("test_broker_connection")
\* Lines 305-311.
SaveSchedClick == Click("set_scheduler_time")
\* Lines 52-59.
LogoutClick == Click("logout")

\* An exception leaves a command handler at its backend call.
CmdThrow(k, e) ==
    /\ cmd' = RemoveAt(cmd, k)
    /\ fault' = Disposition(HandlerOf(cmd[k]))
    /\ alerted' = ErrorNotice(HandlerOf(cmd[k]), e)
    /\ UNCHANGED <<call, watch, bridge, backend, quiet, timerArmed, cyc, surfaces>>

\* The handler resumes with the answer r: alert, then (for most)
\* `await refreshAll()`, whose first step runs in the same turn.  From
\* there on the handler is only the caller of that invocation.
AfterReply(k, r) ==
    /\ cmd' = RemoveAt(cmd, k)
    /\ alerted' = ReplyNotice(cmd[k], r)
    /\ fault' = "none"
    /\ IF RefreshesAfter(cmd[k])
         THEN RefreshAll(HandlerOf(cmd[k]))
         ELSE UNCHANGED cyc
    /\ UNCHANGED <<call, watch, bridge, backend, quiet, timerArmed, surfaces>>

\* logout() (line 55) reads nothing of the answer.
AfterLogout(k) ==
    /\ cmd' = RemoveAt(cmd, k)
    /\ NoOutput
    /\ UNCHANGED <<call, watch, bridge, backend, quiet, timerArmed, cyc, surfaces>>

CmdResume(k) ==
    /\ k \in DOMAIN cmd
    /\ \/ cmd[k] # "logout" /\ \E r \in Replies : AfterReply(k, r)
       \/ cmd[k] = "logout" /\ AfterLogout(k)
       \/ ~quiet /\ CmdThrow(k, RejectedErr)
       \/ ~quiet /\ cmd[k] # "logout" /\ CmdThrow(k, NullErr)

\* ---------------------------------------------------------------------
\* Environment
\* ---------------------------------------------------------------------
\* pywebview injects window.pywebview into the page; it stays.
BridgeUp ==
    /\ ~bridge
    /\ bridge' = TRUE
    /\ NoOutput
    /\ UNCHANGED <<call, watch, backend, quiet, timerArmed, cyc, cmd, surfaces>>

\* The engine starts or stops on the backend's side.
BackendChange ==
    /\ ~quiet
    /\ backend' = [backend EXCEPT !.engine_active = ~backend.engine_active]
    /\ NoOutput
    /\ UNCHANGED <<call, watch, bridge, quiet, timerArmed, cyc, cmd, surfaces>>

\* From here on the backend's status stays as it is and its calls succeed.
Settle ==
    /\ ~quiet
    /\ quiet' = TRUE
    /\ NoOutput
    /\ UNCHANGED <<call, watch, bridge, backend, timerArmed, cyc, cmd, surfaces>>

\* ---------------------------------------------------------------------
\* Specification
\* ---------------------------------------------------------------------
\* The DOMContentLoaded handler has run: the timer is registered and the
\* initial refreshAll() (line 314) has been called, with or without a bridge.
Init ==
    /\ bridge \in BOOLEAN
    /\ backend \in StatusPayloads
    /\ quiet = FALSE
    /\ timerArmed = TRUE
    /\ cmd = <<>>
    /\ cyc = IF bridge THEN <<[pc |-> "status", h |-> "log", resp |-> {}]>> ELSE <<>>
    /\ tiles = InitTiles
    /\ startBtn = [b \in {1, 2} |-> FALSE]
    /\ posTable = AsLoaded
    /\ trdTable = AsLoaded
    /\ chart = AsLoaded
    /\ alerted = NoAlert
    /\ fault = "none"
    /\ watch = Over
    /\ arg = NoCall
    /\ out = NoCall

Positions == 1..MaxPending

CycleStep(i) ==
    \/ StatusServe(i)
    \/ StatusResume(i)
    \/ PositionsResume(i)
    \/ TradesResume(i)
    \/ CurveResume(i)

Next ==
    \/ Tick
    \/ RefreshClick
    \/ \E i \in Positions : StatusServe(i)
    \/ \E i \in Positions : StatusResume(i)
    \/ \E i \in Positions : PositionsResume(i)
    \/ \E i \in Positions : TradesResume(i)
    \/ \E i \in Positions : CurveResume(i)
    \/ \E b \in {1, 2} : StartClick(b)
    \/ StopClick
    \/ SaveConnClick
    \/ TestConnClick
    \/ SaveSchedClick
    \/ LogoutClick
    \/ \E k \in Positions : CmdResume(k)
    \/ BridgeUp
    \/ BackendChange

Spec == Init /\ [][Next]_vars

TypeOK ==
    /\ bridge \in BOOLEAN
    /\ backend \in StatusPayloads
    /\ quiet \in BOOLEAN
    /\ timerArmed \in BOOLEAN
    /\ Len(cyc) + Len(cmd) <= MaxPending
    /\ \A i \in DOMAIN cyc :
         /\ cyc[i].pc \in {"status", "positions", "trades", "curve"}
         /\ cyc[i].h \in Handlers
         /\ cyc[i].resp \subseteq StatusAnswers
    /\ \A k \in DOMAIN cmd : cmd[k] \in CmdKinds
    /\ watch \in 0..Len(cyc)
    /\ posTable \in Tags /\ trdTable \in Tags /\ chart \in Tags /\ tiles.from \in Tags
    /\ fault \in {"none", "swallowed", "console.error", "caught", "ignored", "unhandled"}

\* The refresh orchestrator alone: startup, timer and refresh button.
\* One invocation in flight is singled out, to be followed to its end.
Watch(i) ==
    /\ i \in DOMAIN cyc
    /\ watch = Over
    /\ watch' = i
    /\ NoOutput
    /\ UNCHANGED <<call, bridge, backend, quiet, timerArmed, cyc, cmd, surfaces>>

NextPolling ==
    \/ Tick
    \/ RefreshClick
    \/ \E i \in Positions : StatusServe(i)
    \/ \E i \in Positions : StatusResume(i)
    \/ \E i \in Positions : PositionsResume(i)
    \/ \E i \in Positions : TradesResume(i)
    \/ \E i \in Positions : CurveResume(i)
    \/ BridgeUp
    \/ BackendChange

\* The orchestrator with a backend that may settle: from then on its status
\* stays and its calls succeed.  The interval timer fires again and again,
\* and every call of an invocation in flight is eventually answered.
NextSettling == NextPolling \/ Settle

LiveSpec ==
    /\ Init
    /\ [][NextSettling]_vars
    /\ WF_vars(Tick)
    /\ \A i \in Positions : WF_vars(CycleStep(i))

\* ---------------------------------------------------------------------
\* Properties
\* ---------------------------------------------------------------------
\* In a step that neither ends nor begins an invocation, cyc[i] and cyc'[i]
\* are the same invocation.
SameCycles == Len(cyc') = Len(cyc)

Moves(i, from, to) ==
    /\ SameCycles
    /\ cyc[i].pc = from
    /\ cyc'[i].pc = to

Begins == Len(cyc') = Len(cyc) + 1

C1Cmds == {"start_engine", "stop_engine", "save_broker_config", "set_scheduler_time"}

\* C1: with the bridge available, a click on start, stop, save-connection or
\* save-schedule issues exactly one mutation call and no get_status yet; and
\* when the answer to that call arrives, whatever it says, a refreshAll()
\* invocation begins (its get_status is issued) in that very step.
C1_CommandThenRefresh ==
    [][ /\ \A kind \in C1Cmds :
             (bridge /\ Click(kind)) =>
                 /\ cmd' = Append(cmd, kind)
                 /\ cyc' = cyc
        /\ \A k \in DOMAIN cmd : \A r \in Replies :
             (cmd[k] \in C1Cmds /\ cmd' = RemoveAt(cmd, k)
                 /\ alerted' = ReplyNotice(cmd[k], r) /\ fault' = "none")
               => (Begins /\ cyc'[Len(cyc')].pc = "status" /\ cyc'[Len(cyc')].resp = {})
      ]_vars

\* C2: while the backend bridge is unavailable no step issues a backend call
\* (no invocation and no command gets suspended at one) and no step raises.
C2_NoBridgeNoOp ==
    [][ ~bridge => (cyc' = cyc /\ cmd' = cmd /\ fault' = "none") ]_vars

\* C3: refreshAll() without a bridge (at startup, from the timer, from the
\* refresh button) issues no call, does not throw and writes no surface; so
\* as long as the bridge is absent nothing is in flight and every surface is
\* as the page was loaded.
C3_RefreshWithoutBridge ==
    /\ [](~bridge => (cyc = <<>> /\ tiles = InitTiles
                        /\ startBtn = [b \in {1, 2} |-> FALSE]
                        /\ posTable = AsLoaded /\ trdTable = AsLoaded
                        /\ chart = AsLoaded))
    /\ [][(~bridge /\ ~bridge') => (UNCHANGED <<cyc, surfaces>>
                         /\ fault' \notin {"swallowed", "console.error"})]_vars

C3_Witness == ~bridge /\ cyc = <<>> /\ tiles = InitTiles /\ timerArmed

\* C4: a failure in a timer-triggered cycle leaves the timer armed, and the
\* state after it lets the timer fire; with the bridge there, a tick begins a
\* new invocation.
C4_PollingSurvivesFailure ==
    /\ [](timerArmed)
    /\ [](fault = "swallowed" => ENABLED Tick)
    /\ [][(bridge /\ Tick) => (Begins /\ cyc'[Len(cyc')].pc = "status")]_vars

C4_Witness == fault = "swallowed" /\ timerArmed /\ Room

ErrorStrings == {StringOf(RejectedErr), StringOf(NullErr), StringOf(NoBridgeErr)}

\* C5: with the bridge available, an exception in a command (its mutation
\* call rejecting, its answer unusable, its follow-up refresh failing) is
\* caught and shown as String(e); none is left unhandled.
C5_CommandErrorsShown ==
    (bridge /\ fault \in {"caught", "unhandled"}) =>
        (fault = "caught" /\ alerted \in ErrorStrings)

\* C6: an invocation begins by issuing get_status; get_positions is issued
\* only by the step that resumes from get_status, and that step has then
\* rendered the tiles from the answer; get_trades and get_equity_curve are
\* issued only later still.
C6_StatusFirst ==
    [][ /\ Begins => (cyc'[Len(cyc')].pc = "status" /\ cyc'[Len(cyc')].resp = {})
        /\ \A i \in DOMAIN cyc :
             /\ (SameCycles /\ cyc[i].pc = "status") =>
                    cyc'[i].pc \in {"status", "positions"}
             /\ Moves(i, "status", "positions") =>
                    \E s \in cyc[i].resp :
                        /\ tiles'.engine = EngineText(s)
                        /\ tiles'.from = i
             /\ (SameCycles /\ cyc'[i].pc = "positions") =>
                    cyc[i].pc \in {"status", "positions"}
      ]_vars

C6_Witness == \E i \in DOMAIN cyc : cyc[i].pc = "positions" /\ tiles.from = i

\* C7 as stated: the position table is rendered by the step that issues
\* get_trades, the trade table by the step that issues get_equity_curve.
C7_EachFetchThenRender ==
    [][ \A i \in DOMAIN cyc :
          /\ Moves(i, "positions", "trades") => posTable' = i
          /\ Moves(i, "trades", "curve") => trdTable' = i
      ]_vars

\* C7 amended: the step that issues get_trades renders neither table; both
\* tables are rendered by the step that resumes from get_trades, which then
\* issues get_equity_curve.
C7_TablesRenderedTogether ==
    [][ \A i \in DOMAIN cyc :
          /\ Moves(i, "positions", "trades") => UNCHANGED <<posTable, trdTable>>
          /\ Moves(i, "trades", "curve") =>
                (posTable' = i /\ trdTable' = i /\ UNCHANGED chart)
          /\ (SameCycles /\ cyc'[i].pc = "curve") => cyc[i].pc \in {"trades", "curve"}
      ]_vars

C7_Witness ==
    \E i \in DOMAIN cyc : cyc[i].pc = "curve" /\ posTable = i /\ trdTable = i

\* C8: once the tiles have been rendered, both start buttons are disabled
\* exactly when the tiles show the engine ACTIVE, and no start_engine call
\* is issued in a state whose tiles show ACTIVE.
C8_StartLock ==
    /\ [](tiles.from # AsLoaded =>
            \A b \in {1, 2} : startBtn[b] = (tiles.engine = "ACTIVE"))
    /\ [][(Len(cmd') > Len(cmd) /\ cmd'[Len(cmd')] = "start_engine")
            => tiles.engine # "ACTIVE"]_vars

C8_Witness ==
    /\ tiles.engine = "ACTIVE"
    /\ startBtn[1] /\ startBtn[2]
    /\ Len(cyc) >= 2

\* C9: an invocation that resumes from get_status after a younger invocation
\* has already rendered overwrites the tiles with its own answer: nothing
\* compares ages.
C9_OlderOverwrites ==
    [][ \A i \in DOMAIN cyc :
          (Moves(i, "status", "positions")
             /\ \E j \in DOMAIN cyc : j > i /\ cyc[j].pc # "status")
          => (tiles'.from = i /\ \E s \in cyc[i].resp : tiles'.engine = EngineText(s))
      ]_vars

\* Two invocations in flight, both past their status render, and the tiles
\* are the older one's: the younger rendered first.
C9_Witness ==
    \E i, j \in DOMAIN cyc :
        /\ i < j
        /\ cyc[i].pc # "status"
        /\ cyc[j].pc # "status"
        /\ tiles.from = i
        /\ tiles.engine # EngineText(backend)

\* C10: once the backend has settled and the bridge is there, the tiles
\* eventually show the backend's status and go on showing it.
C10_EventuallyCurrent ==
    [](quiet /\ bridge => <>[](tiles.engine = EngineText(backend)))

C10_Witness ==
    quiet /\ bridge /\ tiles.engine = EngineText(backend) /\ tiles.from = Over

\* The orchestrator with one invocation followed.  Every call of an
\* invocation in flight is eventually answered, with a payload, with null or
\* with a failure; nothing is assumed of the timer or the user.
NextWatched ==
    \/ Tick
    \/ RefreshClick
    \/ \E i \in Positions : StatusServe(i)
    \/ \E i \in Positions : StatusResume(i)
    \/ \E i \in Positions : PositionsResume(i)
    \/ \E i \in Positions : TradesResume(i)
    \/ \E i \in Positions : CurveResume(i)
    \/ BridgeUp
    \/ \E i \in Positions : Watch(i)

WatchSpec ==
    /\ Init
    /\ [][NextWatched]_vars
    /\ \A i \in Positions : WF_vars(CycleStep(i))

\* C11: an invocation of refreshAll() is never cancelled.  Safety: beginning
\* another invocation leaves the ones in flight as they are; a step advances
\* at most one invocation, by one stage, in the order status (asked,
\* answered), positions, trades, curve; and an invocation leaves only by
\* drawing the chart after get_equity_curve or by throwing.  Progress: given
\* that each call returns or fails, whichever invocation is followed reaches
\* one of those two ends, whatever is begun in the meantime.
Stages == <<"status", "positions", "trades", "curve">>

StageOf(c) == CHOOSE n \in DOMAIN Stages : Stages[n] = c.pc

Advanced(c, d) ==
    /\ d.h = c.h
    /\ \/ d.pc = c.pc /\ c.pc = "status" /\ c.resp = {} /\ d.resp # {}
       \/ StageOf(d) = StageOf(c) + 1 /\ (c.pc = "status" => c.resp # {})

C11_NeverCancelled ==
    /\ [][ /\ Begins => SubSeq(cyc', 1, Len(cyc)) = cyc
           /\ SameCycles =>
                 \A i \in DOMAIN cyc :
                    \/ cyc'[i] = cyc[i]
                    \/ /\ Advanced(cyc[i], cyc'[i])
                       /\ \A j \in DOMAIN cyc \ {i} : cyc'[j] = cyc[j]
           /\ Len(cyc') < Len(cyc) =>
                 \E i \in DOMAIN cyc :
                    /\ cyc' = RemoveAt(cyc, i)
                    /\ \/ cyc[i].pc = "curve" /\ chart' = Over /\ fault' = "none"
                       \/ fault' # "none"
           /\ Len(cyc') <= Len(cyc) + 1
         ]_vars
    /\ [](\A i \in DOMAIN cyc : ENABLED CycleStep(i))
    /\ [][watch # Over /\ watch' = Over =>
             /\ cyc' = RemoveAt(cyc, watch)
             /\ \/ cyc[watch].pc = "curve" /\ chart' = Over /\ fault' = "none"
                \/ fault' # "none"]_vars
    /\ (watch # Over) ~> (watch = Over)

\* An invocation waits for get_equity_curve while a later one, begun in the
\* meantime, waits for get_status.
C11_Witness ==
    /\ Len(cyc) >= 2
    /\ watch = 1
    /\ cyc[1].pc = "curve"
    /\ cyc[Len(cyc)].pc = "status"

\* C12: whatever the command, when its response has ok false or no ok at
\* all, the alert is the response's message if it has one, and otherwise a
\* text that reports the failure: none of the texts shown on success.
SuccessTexts == {"Engine started", "Engine stopped", "Connection OK", "Saved"}

C12_FailureNotified ==
    [][ \A k \in DOMAIN cmd : \A r \in Replies :
          (~Truthy(r.ok) /\ cmd[k] # "logout" /\ AfterReply(k, r)) =>
              IF Truthy(r.message) THEN alerted' = r.message
              ELSE alerted' \notin SuccessTexts \cup {NoAlert}
      ]_vars

\* C13: whatever get_status answers with, null included, the step that
\* resumes from it renders the tiles without throwing and goes on to issue
\* get_positions.
C13_StatusRenderTotal ==
    [][ \A i \in DOMAIN cyc : \A a \in cyc[i].resp \ {Rejection} :
          (cyc[i].pc = "status" /\ StatusAnswered(i, a)) =>
              /\ Moves(i, "status", "positions")
              /\ tiles'.from = i
              /\ fault' = "none"
      ]_vars

\* C19: an invocation that fails leaves every surface as it was at that
\* moment, and what it had written until then follows from where it stood:
\* waiting for get_status it has written nothing; waiting for get_positions
\* or get_trades it has rendered the tiles (in the step that resumed from
\* get_status) and neither table; waiting for get_equity_curve the tiles and
\* both tables have been rendered, and the chart is not its own.
C19_FailureLeavesTheRest ==
    /\ [][ (Len(cyc') < Len(cyc) /\ fault' # "none") =>
             \E i \in DOMAIN cyc :
                /\ cyc' = RemoveAt(cyc, i)
                /\ tiles' = [tiles EXCEPT !.from = Shift(tiles.from, i)]
                /\ startBtn' = startBtn
                /\ posTable' = Shift(posTable, i)
                /\ trdTable' = Shift(trdTable, i)
                /\ chart' = chart
         ]_vars
    /\ [][ \A i \in DOMAIN cyc :
             Moves(i, "status", "positions") =>
                 (tiles'.from = i /\ UNCHANGED <<posTable, trdTable, chart>>)
         ]_vars
    /\ [](\A i \in DOMAIN cyc :
            /\ cyc[i].pc = "status" => tiles.from # i
            /\ cyc[i].pc \in {"status", "positions", "trades"} =>
                  (posTable # i /\ trdTable # i)
            /\ cyc[i].pc \in {"positions", "trades", "curve"} =>
                  tiles.from # AsLoaded
            /\ cyc[i].pc = "curve" =>
                  (posTable # AsLoaded /\ trdTable # AsLoaded))

\* The only invocation so far rendered the tiles and then failed at
\* get_positions or get_trades: the tables and the chart are as loaded.
C19_Witness ==
    /\ fault # "none"
    /\ cyc = <<>>
    /\ tiles.from = Over
    /\ posTable = AsLoaded
    /\ trdTable = AsLoaded
    /\ chart = AsLoaded

\* C20: the two tables always show the data of one and the same invocation:
\* a step writes one exactly when it writes the other, and it is the step in
\* which that invocation resumes from get_trades.  (The tiles may meanwhile
\* be another invocation's: see the witness.)
C20_TablesOfOneCycle ==
    /\ [](posTable = trdTable)
    /\ [][ (SameCycles /\ (posTable' # posTable \/ trdTable' # trdTable)) =>
             \E i \in DOMAIN cyc :
                /\ Moves(i, "trades", "curve")
                /\ posTable' = i
                /\ trdTable' = i
         ]_vars

\* Two invocations overlap; the tables are one's, the tiles the other's, and
\* the chart was drawn by an earlier one.
C20_Witness ==
    \E i, j \in DOMAIN cyc :
        /\ i # j
        /\ posTable = i
        /\ trdTable = i
        /\ tiles.from = j
        /\ chart = Over

\* ---------------------------------------------------------------------
\* The renderers as functions of their arguments.  Each is called once, on
\* arguments drawn from the sets below; `out` is what it leaves on the page.

\* The em-dash marker of lines 211-248.
Dash == "--"

\* A field of a payload: {} when the field is missing or null, {n} when it
\* holds the number n.  Fractions (equity_pct, live_return, live_max_dd) are
\* counted in 1/10000, prices in cents, sizes in units.
Amounts == {-150, 0, 5, 1234}

FieldValues == {{}} \cup {{n} : n \in Amounts}

Num(f) == CHOOSE n \in f : TRUE

\* Number.prototype.toFixed(2) of n/100.
Fixed2(n) ==
    LET a == IF n < 0 THEN -n ELSE n
    IN  (IF n < 0 THEN "-" ELSE "") \o ToString(a \div 100) \o "."
          \o (IF a % 100 < 10 THEN "0" ELSE "") \o ToString(a % 100)

\* Lines 210-211: Number(s.equity_pct ?? 0), shown only if finite and not 0,
\* with the glyph of its sign (up for the black up-pointing triangle).
EquityPctText(f) ==
    LET pct == IF f = {} THEN 0 ELSE Num(f)
    IN  IF pct # 0
        THEN (IF pct > 0 THEN "up" ELSE "down") \o " " \o Fixed2(pct) \o "%"
        ELSE Dash

\* Line 241: s.current_size != null ? String(s.current_size) : dash
SizeText(f) == IF f # {} THEN ToString(Num(f)) ELSE Dash

\* Line 242: s.current_avg_price ? `$${Number(...).toFixed(2)}` : dash
AvgText(f) == IF f # {} /\ Num(f) # 0 THEN "$" \o Fixed2(Num(f)) ELSE Dash

MiniTextIfTruthy(f) == IF f # {} /\ Num(f) # 0 THEN Fixed2(Num(f)) \o "%" ELSE Dash

\* Lines 247-248: (s.x != null) ? `${(Number(s.x)*100).toFixed(2)}%` : dash
MiniText(f) == IF f # {} THEN Fixed2(Num(f)) \o "%" ELSE Dash

StatusFields ==
    [equity_pct : FieldValues, live_return : FieldValues, live_max_dd : FieldValues,
     current_size : FieldValues, current_avg_price : FieldValues]

\* The texts of top-equity-pct, pos-size, pos-avg, mini-return, mini-mdd.
StatusTexts(s) ==
    [fn |-> "status",
     top_equity_pct |-> EquityPctText(s.equity_pct),
     pos_size |-> SizeText(s.current_size),
     pos_avg |-> AvgText(s.current_avg_price),
     mini_return |-> MiniText(s.live_return),
     mini_mdd |-> MiniText(s.live_max_dd)]

StatusCalls == {[fn |-> "status", s |-> s] : s \in StatusFields}

\* The rest of the page stands still while a renderer runs.
page == <<bridge, backend, quiet, timerArmed, cyc, cmd, surfaces, alerted, fault, watch>>

CallStatusTexts ==
    /\ arg \in StatusCalls
    /\ out = NoCall
    /\ out' = StatusTexts(arg.s)
    /\ UNCHANGED <<arg, page>>

\* drawEquityCurve(points), lines 68-138.  Coordinates are kept exact: an x
\* is a numerator over xden = points.length - 1, a y a numerator over
\* yden = maxY - minY, a gridline's y a numerator over GridSteps.
MaxPoints == 3

Pad == 14

GridSteps == 4

PlaceholderText == "Equity curve will appear here once KAQT records daily snapshots."

\* getBoundingClientRect() of the canvas: laid out, or collapsed while its
\* view is not shown.
Rects == {[w |-> 0, h |-> 0], [w |-> 28, h |-> 28], [w |-> 300, h |-> 100]}

Points == [equity : {{}, {90}, {100}, {150}}]

PointLists == UNION {[1..n -> Points] : n \in 0..MaxPoints}

\* points.map(p => Number(p.equity || 0))
Ys(points) == [i \in DOMAIN points |->
                 IF points[i].equity = {} THEN 0 ELSE Num(points[i].equity)]

SeqMin(ys) == CHOOSE v \in {ys[i] : i \in DOMAIN ys} : \A i \in DOMAIN ys : v <= ys[i]

SeqMax(ys) == CHOOSE v \in {ys[i] : i \in DOMAIN ys} : \A i \in DOMAIN ys : v >= ys[i]

YRangeUnguarded(ys) == [minY |-> SeqMin(ys), maxY |-> SeqMax(ys)]

\* Lines 95-97, with the guard `if (minY === maxY) { maxY = minY + 1; }`.
YRange(ys) ==
    [minY |-> SeqMin(ys),
     maxY |-> IF SeqMin(ys) = SeqMax(ys) THEN SeqMin(ys) + 1 ELSE SeqMax(ys)]

xAtOverLength(i, n, innerW) == Pad * (n - 1) + ((i * (n - 1)) \div n) * innerW

\* pad + (i / (points.length - 1)) * innerW, times (n - 1); i counts from 0.
xAt(i, n, innerW) == Pad * (n - 1) + i * innerW

yAtUpward(val, r, innerH) == Pad * (r.maxY - r.minY) + (val - r.minY) * innerH

\* pad + (1 - (val - minY) / (maxY - minY)) * innerH, times (maxY - minY).
yAt(val, r, innerH) ==
    Pad * (r.maxY - r.minY) + ((r.maxY - r.minY) - (val - r.minY)) * innerH

Untouched ==
    [fn |-> "drawEquityCurve", cleared |-> FALSE, text |-> "", grid |-> <<>>,
     line |-> <<>>, xden |-> 1, yden |-> 1, fill |-> FALSE, base |-> 0]

NoDataIfEmpty(points) == points = {} \/ \A q \in points : Len(q) < 1

\* Line 85: !points || points.length < 2
NoData(points) == points = {} \/ \A q \in points : Len(q) < 2

drawEquityCurve(canvas, rect, points) ==
    IF ~canvas THEN Untouched
    ELSE IF NoData(points)
    THEN [Untouched EXCEPT !.cleared = TRUE, !.text = PlaceholderText]
    ELSE LET q == CHOOSE q \in points : TRUE
             ys == Ys(q)
             r == YRange(ys)
             innerW == rect.w - Pad * 2
             innerH == rect.h - Pad * 2
         IN  [fn |-> "drawEquityCurve",
              cleared |-> TRUE,
              text |-> "",
              grid |-> [i \in 1..(GridSteps + 1) |-> Pad * GridSteps + (i - 1) * innerH],
              line |-> [i \in DOMAIN ys |->
                          [x |-> xAt(i - 1, Len(ys), innerW), y |-> yAt(ys[i], r, innerH)]],
              xden |-> Len(ys) - 1,
              yden |-> r.maxY - r.minY,
              fill |-> TRUE,
              base |-> Pad + innerH]

CurveCalls ==
    [fn : {"drawEquityCurve"}, canvas : BOOLEAN, rect : Rects,
     points : {{}} \cup {{q} : q \in PointLists}]

CallDrawEquityCurve ==
    /\ arg \in CurveCalls
    /\ out = NoCall
    /\ out' = drawEquityCurve(arg.canvas, arg.rect, arg.points)
    /\ UNCHANGED <<arg, page>>

\* renderTrades(list), lines 172-196.  A trade is known by its place in the
\* backend's list; `before` is what trades-body held.
MaxTrades == 52

RecentTrades == 50

NoTradesRow == [colspan |-> 5, text |-> "No trades yet."]

TradeRow(t) == [colspan |-> 1, text |-> "trade " \o ToString(t)]

TradeLists == {[i \in 1..n |-> i] : n \in 0..MaxTrades}

Tables == {<<>>, <<NoTradesRow>>, <<TradeRow(7), TradeRow(3)>>}

SliceFromStart(q, k) == SubSeq(q, 1, IF Len(q) > k THEN k ELSE Len(q))

\* list.slice(-k)
SliceFromEnd(q, k) == SubSeq(q, IF Len(q) > k THEN Len(q) - k + 1 ELSE 1, Len(q))

\* Array.prototype.reverse
Reverse(q) == [i \in 1..Len(q) |-> q[Len(q) + 1 - i]]

renderTrades(tradesBody, before, list) ==
    IF ~tradesBody THEN before
    ELSE IF list = {} \/ \A q \in list : Len(q) = 0 THEN <<NoTradesRow>>
    ELSE LET q == CHOOSE q \in list : TRUE
             shown == Reverse(SliceFromEnd(q, RecentTrades))
         IN  [i \in 1..Len(shown) |-> TradeRow(shown[i])]

TradeCalls ==
    [fn : {"renderTrades"}, tradesBody : BOOLEAN, before : Tables,
     list : {{}} \cup {{q} : q \in TradeLists}]

CallRenderTrades ==
    /\ arg \in TradeCalls
    /\ out = NoCall
    /\ out' = [fn |-> "renderTrades", rows |-> renderTrades(arg.tradesBody, arg.before, arg.list)]
    /\ UNCHANGED <<arg, page>>

\* The page as loaded, none of its timers or handlers running, and one call
\* of one renderer.
RenderInit ==
    /\ bridge = FALSE
    /\ backend = [engine_active |-> FALSE]
    /\ quiet = FALSE
    /\ timerArmed = FALSE
    /\ cyc = <<>>
    /\ cmd = <<>>
    /\ tiles = InitTiles
    /\ startBtn = [b \in {1, 2} |-> FALSE]
    /\ posTable = AsLoaded
    /\ trdTable = AsLoaded
    /\ chart = AsLoaded
    /\ alerted = NoAlert
    /\ fault = "none"
    /\ watch = Over
    /\ arg \in StatusCalls \cup CurveCalls \cup TradeCalls
    /\ out = NoCall

RenderNext ==
    \/ CallStatusTexts
    \/ CallDrawEquityCurve
    \/ CallRenderTrades

RenderSpec == RenderInit /\ [][RenderNext]_vars

\* What a call was made on, and that it has returned.
Drawn == arg \in CurveCalls /\ out # NoCall

Series == CHOOSE q \in arg.points : TRUE

Rendered == arg \in StatusCalls /\ out # NoCall

\* C14 as stated: for each of the five fields, a missing value is shown as
\* the dash and a zero as something else.
C14_ZeroNeverDash ==
    Rendered =>
        \A p \in {<<arg.s.equity_pct, out.top_equity_pct>>,
                  <<arg.s.live_return, out.mini_return>>,
                  <<arg.s.live_max_dd, out.mini_mdd>>,
                  <<arg.s.current_size, out.pos_size>>,
                  <<arg.s.current_avg_price, out.pos_avg>>} :
            /\ p[1] = {} => p[2] = Dash
            /\ p[1] = {0} => p[2] # Dash

\* C14 amended: live return, live max drawdown and current size show the
\* dash exactly when the value is missing, and a zero as "0.00%", "0.00%"
\* and "0"; equity change % and average price show the dash when the value
\* is missing and also when it is zero, and a number otherwise.
C14_DashWhereMeant ==
    Rendered =>
        /\ \A p \in {<<arg.s.live_return, out.mini_return>>,
                     <<arg.s.live_max_dd, out.mini_mdd>>} :
              /\ p[1] = {} <=> p[2] = Dash
              /\ p[1] = {0} => p[2] = "0.00%"
              /\ p[1] = {1234} => p[2] = "12.34%"
        /\ arg.s.current_size = {} <=> out.pos_size = Dash
        /\ arg.s.current_size = {0} => out.pos_size = "0"
        /\ arg.s.equity_pct \in {{}, {0}} <=> out.top_equity_pct = Dash
        /\ arg.s.equity_pct = {5} => out.top_equity_pct = "up 0.05%"
        /\ arg.s.equity_pct = {-150} => out.top_equity_pct = "down -1.50%"
        /\ arg.s.current_avg_price \in {{}, {0}} <=> out.pos_avg = Dash
        /\ arg.s.current_avg_price = {1234} => out.pos_avg = "$12.34"

\* Every one of the five fields is present and zero.
C14_Witness ==
    /\ Rendered
    /\ arg.s = [equity_pct |-> {0}, live_return |-> {0}, live_max_dd |-> {0},
                current_size |-> {0}, current_avg_price |-> {0}]
    /\ out.mini_return = "0.00%"
    /\ out.top_equity_pct = Dash

\* A series of two points or more has been drawn on a canvas.
Plotted == Drawn /\ arg.canvas /\ ~NoData(arg.points)

AllEqual == \A i, j \in DOMAIN Series : Ys(Series)[i] = Ys(Series)[j]

InnerH == arg.rect.h - Pad * 2

InnerW == arg.rect.w - Pad * 2

\* C15 as stated: a series whose values are all equal is scaled without a
\* division by zero, and every point of its line is at y = pad + innerH / 2.
C15_FlatAtMidHeight ==
    (Plotted /\ AllEqual) =>
        /\ out.xden # 0
        /\ out.yden # 0
        /\ \A i \in DOMAIN out.line :
              2 * out.line[i].y = (2 * Pad + InnerH) * out.yden

\* C15 amended: such a series is scaled without a division by zero, and
\* every point of its line is on the baseline of the draw area,
\* y = pad + innerH, where the fill is closed.
C15_FlatOnBaseline ==
    (Plotted /\ AllEqual) =>
        /\ out.xden # 0
        /\ out.yden # 0
        /\ \A i \in DOMAIN out.line :
              /\ out.line[i].y = (Pad + InnerH) * out.yden
              /\ out.line[i].y = out.base * out.yden

\* Three points of equity 100 on the 300 x 100 canvas: the line is at y = 86.
C15_Witness ==
    /\ Plotted
    /\ AllEqual
    /\ arg.rect = [w |-> 300, h |-> 100]
    /\ Len(Series) = 3
    /\ Series[1].equity = {100}
    /\ out.yden = 1
    /\ out.line[2].y = 86

\* C16: on a canvas, a call with no series or with a series of 0 or 1 points
\* clears, writes the placeholder and draws no gridline, no line and no
\* fill; a call with 2 points or more clears, writes no placeholder, and
\* draws exactly 5 gridlines (evenly spaced from pad to pad + innerH), the
\* line through all points and the fill.
C16_PlaceholderOrChart ==
    (Drawn /\ arg.canvas) =>
        IF arg.points = {} \/ Len(Series) <= 1
        THEN /\ out.cleared
             /\ out.text = PlaceholderText
             /\ out.grid = <<>>
             /\ out.line = <<>>
             /\ ~out.fill
        ELSE /\ out.cleared
             /\ out.text = ""
             /\ Len(out.grid) = 5
             /\ \A i \in 1..5 : out.grid[i] = Pad * 4 + (i - 1) * InnerH
             /\ Len(out.line) = Len(Series)
             /\ out.fill

\* A series of exactly one point: the placeholder, and nothing else.
C16_Witness ==
    /\ Drawn
    /\ arg.canvas
    /\ arg.points # {}
    /\ Len(Series) = 1
    /\ out.text = PlaceholderText
    /\ out.cleared

N == Len(Series)

YsOfSeries == Ys(Series)

FirstAndLastX ==
    /\ out.line[1].x = Pad * out.xden
    /\ out.line[N].x = (arg.rect.w - Pad) * out.xden

XIncreasing == \A i \in 1..(N - 1) : out.line[i].x < out.line[i + 1].x

YFalling ==
    \A i, j \in 1..N : YsOfSeries[i] > YsOfSeries[j] => out.line[i].y <= out.line[j].y

MaxAtTop ==
    \A i \in 1..N : YsOfSeries[i] = SeqMax(YsOfSeries) => out.line[i].y = Pad * out.yden

MinAtBottom ==
    \A i \in 1..N :
        YsOfSeries[i] = SeqMin(YsOfSeries) => out.line[i].y = (arg.rect.h - Pad) * out.yden

Inside ==
    \A i \in 1..N :
        /\ Pad * out.xden <= out.line[i].x
        /\ out.line[i].x <= (arg.rect.w - Pad) * out.xden
        /\ Pad * out.yden <= out.line[i].y
        /\ out.line[i].y <= (arg.rect.h - Pad) * out.yden

\* C17 as stated: for every series of 2 points or more, whatever the width
\* and height, the first point is at x = pad, the last at x = w - pad, x
\* grows strictly with the index, a larger equity has a smaller or equal y,
\* the maximum is at y = pad, the minimum at y = h - pad, and every point is
\* inside the padded area.
C17_ScalingAnySurface ==
    Plotted =>
        /\ FirstAndLastX
        /\ XIncreasing
        /\ YFalling
        /\ MaxAtTop
        /\ MinAtBottom
        /\ Inside

\* C17 amended: first and last x and the minimum's y are as stated on any
\* surface; the maximum is at y = pad when the equities are not all equal;
\* x grows strictly when w > 2 pad; y falls with equity and every point is
\* inside the padded area when w >= 2 pad and h >= 2 pad.
C17_ScalingOnRoomySurface ==
    Plotted =>
        /\ FirstAndLastX
        /\ MinAtBottom
        /\ ~AllEqual => MaxAtTop
        /\ arg.rect.w > 2 * Pad => XIncreasing
        /\ (arg.rect.w >= 2 * Pad /\ arg.rect.h >= 2 * Pad) => (YFalling /\ Inside)

\* Equities 100, 150, 90 on the 300 x 100 canvas: x runs from 14 to 286 and
\* the second point, the maximum, is at y = 14.
C17_Witness ==
    /\ Plotted
    /\ arg.rect = [w |-> 300, h |-> 100]
    /\ YsOfSeries = <<100, 150, 90>>
    /\ out.line[1].x = 14 * 2
    /\ out.line[3].x = 286 * 2
    /\ out.line[2].y = 14 * 60
    /\ out.line[3].y = 86 * 60

Trades == CHOOSE q \in arg.list : TRUE

\* C18: called on a list of 1 trade or more, renderTrades leaves exactly
\* min(N, 50) rows in the table, whatever it held before: row i is the
\* trade i-th from the end of the list.
C18_LastFiftyReversed ==
    (arg \in TradeCalls /\ out # NoCall /\ arg.tradesBody
        /\ arg.list # {} /\ Len(Trades) >= 1) =>
        /\ Len(out.rows) = (IF Len(Trades) < 50 THEN Len(Trades) ELSE 50)
        /\ \A i \in DOMAIN out.rows :
              out.rows[i] = TradeRow(Trades[Len(Trades) + 1 - i])

\* 52 trades rendered over a table that held two rows: 50 rows, from the
\* 52nd trade down to the 3rd.
C18_Witness ==
    /\ arg \in TradeCalls
    /\ out # NoCall
    /\ arg.tradesBody
    /\ arg.before = <<TradeRow(7), TradeRow(3)>>
    /\ arg.list # {}
    /\ Len(Trades) = 52
    /\ Len(out.rows) = 50
    /\ out.rows[1].text = "trade 52"
    /\ out.rows[50].text = "trade 3"

====
